---- MODULE Spec2Model ----
(***************************************************************************)
(* Model of the text-processing demonstration: src/text_processor.py and   *)
(* src/main.py.                                                            *)
(*                                                                         *)
(* A character is its code point, a text is a sequence of characters and a *)
(* word is a non-empty sequence of characters.  A Python dict is a         *)
(* sequence of [word, count] items in insertion order: dict equality       *)
(* ignores that order, sorted() and the top-N list do not.  The timing     *)
(* fields (total_time, processing_time, computation_time) are wall-clock   *)
(* readings: they are left out of the results, and the one place where     *)
(* they decide something (the order of the performance report) is a        *)
(* nondeterministic choice.                                                *)
(***************************************************************************)
EXTENDS Integers, Sequences, FiniteSets, TLC

VARIABLES
    dir,          \* the directory snapshot: what os.listdir returns, in its order
    pc,           \* position of main / of the running strategy
    filepaths,    \* the strategy's discovered file list (indices into dir)
    all_words,    \* the strategy's accumulated word list
    idx,          \* index of the parent's current loop
    results,      \* threaded: the slot array; multiprocess: pool.map's result list
    threads,      \* threaded: position of each worker thread
    wres,         \* threaded: each worker's local variable 'result'
    lock,         \* self.lock: 0 when free, else the index of the holding worker
    pool,         \* multiprocess: the task each of the pool's processes runs (0: idle)
    qnext,        \* multiprocess: next task of the pool's task queue
    all_results,  \* main's all_results: method -> returned 'words'
    final_stats,  \* main's final_stats (as a sequence of at most one Statistics)
    out_files,    \* the files of the output folder: name -> lines
    words,        \* the word sequence given to the statistics computations
    word_chunks,  \* the chunked computation's word_chunks
    stats,        \* what each statistics computation returned
    probe,        \* what a merge over a partition, or a top-N query, returned
    finished,     \* history: the running strategy's tasks, in their order of completion
    opened,       \* history: how often the running strategy gave each entry to a reader
    stuck,        \* the entries whose read never returns
    listable,     \* whether os.listdir succeeds on the data folder
    self_results,     \* the TextProcessor's self.results (a dict, as its item sequence)
    processed_files   \* the TextProcessor's self.processed_files

vars == <<dir, stuck, listable, self_results, processed_files, opened, pc,
          filepaths, all_words, idx, results,
          threads, wres, lock,
          pool, qnext, all_results, final_stats, out_files,
          words, word_chunks, stats, probe, finished>>

\* the input of a run: the program never changes it
envVars == <<dir, stuck, listable>>

\* the fields TextProcessor.__init__ sets besides the lock
objVars == <<self_results, processed_files>>

\* the state of the statistics computations run on their own
statVars == <<words, word_chunks, stats, probe>>

----------------------------------------------------------------------------
(* Bounds of the model *)

MaxFiles == 3

\* longest word sequence given to the statistics computations
MaxWords == 5

\* most chunks of a partition given to merge_counters
MaxParts == 3

\* largest n asked of get_top_words
MaxTop == 4

\* longest text given to the readers on their own
MaxText == 4

\* most files given to the multiprocess strategy on its own
MaxPoolFiles == 5

\* most entries of a folder some of whose reads never return
MaxLiveFiles == 2

\* most entries of a folder that may hold subdirectories
MaxDirEntries == 2

\* longest word sequence given to the chunking loop on its own
MaxChunkWords == 9

----------------------------------------------------------------------------
(* Small helpers *)

Min(a, b) == IF a <= b THEN a ELSE b

Max(a, b) == IF a >= b THEN a ELSE b

Range(s) == {s[k] : k \in 1..Len(s)}

----------------------------------------------------------------------------
(* Characters: string.punctuation, the whitespace str.split() splits on,   *)
(* str.lower and str.isalpha, for the ASCII characters and for the         *)
(* characters that are neither letters nor whitespace.                     *)

Punctuation == (33..47) \cup (58..64) \cup (91..96) \cup (123..126)

Whitespace == (9..13) \cup (28..32)

Lower(c) == IF c \in 65..90 THEN c + 32 ELSE c

IsAlphaChar(c) == c \in (65..90) \cup (97..122)

\* str.isalpha(): at least one character and all of them alphabetic
IsAlpha(w) == Len(w) > 0 /\ \A k \in 1..Len(w) : IsAlphaChar(w[k])

\* text.lower()
LowerText(text) == [k \in 1..Len(text) |-> Lower(text[k])]

\* (mutation) punctuation replaced by a space instead of deleted
TranslateToSpace(text) ==
    [k \in 1..Len(text) |-> IF text[k] \in Punctuation THEN 32 ELSE text[k]]

\* text.translate(str.maketrans('', '', string.punctuation))
Translate(text) == SelectSeq(text, LAMBDA c : c \notin Punctuation)

\* str.split(): the maximal runs of non-whitespace characters, in order
RECURSIVE SplitFrom(_, _, _, _)
SplitFrom(text, k, cur, acc) ==
    IF k > Len(text)
    THEN IF cur = <<>> THEN acc ELSE Append(acc, cur)
    ELSE IF text[k] \in Whitespace
         THEN SplitFrom(text, k + 1, <<>>, IF cur = <<>> THEN acc ELSE Append(acc, cur))
         ELSE SplitFrom(text, k + 1, Append(cur, text[k]), acc)

Split(text) == SplitFrom(text, 1, <<>>, <<>>)

\* the body of both readers' try block: lower, translate, split, isalpha filter
CleanWords(text) == SelectSeq(Split(Translate(LowerText(text))), IsAlpha)

----------------------------------------------------------------------------
(* Files and file results *)

\* "B, a-b 1"
TextA == <<66, 44, 32, 97, 45, 98, 32, 49>>

\* "ab b2 a"
TextB == <<97, 98, 32, 98, 50, 32, 97>>

\* An entry of the directory that is a file: whether its name ends in
\* ".txt", whether open() succeeds on it, and its text.
Entry(txt, ok, text) == [txt |-> txt, ok |-> ok, text |-> text, isdir |-> FALSE]

\* An entry that is a subdirectory: open() raises IsADirectoryError on it.
SubDir(txt) == [txt |-> txt, ok |-> FALSE, text |-> <<>>, isdir |-> TRUE]

EntryKinds == { Entry(TRUE, TRUE, TextA), Entry(TRUE, TRUE, TextB),
                Entry(TRUE, FALSE, TextA), Entry(FALSE, TRUE, TextB) }

\* all sequences over S of length at most n
SeqsUpTo(S, n) == UNION {[1..k -> S] : k \in 0..n}

\* The (filepath, words, processing_time) tuple a reader returns, and None.
\* 'exc' tells a call that ended by an exception from one that returned.
FileResult(path, ws) == [none |-> FALSE, exc |-> FALSE, filepath |-> path, words |-> ws]

None == [none |-> TRUE, exc |-> FALSE, filepath |-> 0, words |-> <<>>]

\* the outcome of a reader call that an exception leaves
Raised(path) == [none |-> FALSE, exc |-> TRUE, filepath |-> path, words |-> <<>>]

\* Python's truth value of a slot: None is false, a 3-tuple is true
Truthy(r) == ~r.none

\* (mutation) the standalone reader without its .lower()
read_and_clean_file_standalone_raw(d, path) ==
    IF d[path].ok
    THEN FileResult(path, SelectSeq(Split(Translate(d[path].text)), IsAlpha))
    ELSE FileResult(path, <<>>)

\* read_and_clean_file_standalone(filepath): the file is dir[path]; an
\* exception of the try block is caught and the file gives no word
read_and_clean_file_standalone(d, path) ==
    IF d[path].ok
    THEN FileResult(path, SelectSeq(Split(Translate(LowerText(d[path].text))), IsAlpha))
    ELSE FileResult(path, <<>>)

\* (mutation) the reader without its except clause
read_and_clean_file_uncaught(d, path) ==
    IF d[path].ok THEN FileResult(path, CleanWords(d[path].text)) ELSE Raised(path)

\* TextProcessor.read_and_clean_file(filepath)
read_and_clean_file(d, path) ==
    IF d[path].ok
    THEN FileResult(path, CleanWords(d[path].text))
    ELSE FileResult(path, <<>>)

\* [join(folder, name) for name in os.listdir(folder) if name.endswith(".txt")]
RECURSIVE ListTxtFrom(_, _)
ListTxtFrom(d, k) ==
    IF k > Len(d) THEN <<>>
    ELSE IF d[k].txt THEN <<k>> \o ListTxtFrom(d, k + 1)
         ELSE ListTxtFrom(d, k + 1)

ListTxt(d) == ListTxtFrom(d, 1)

----------------------------------------------------------------------------
(* Word counters: a dict is the sequence of its items in insertion order *)

Item(word, count) == [word |-> word, count |-> count]

Keys(counter) == {counter[k].word : k \in 1..Len(counter)}

\* (mutation) counter.get(word, 1)
CounterGetDefaultOne(counter, word) ==
    IF word \in Keys(counter)
    THEN counter[CHOOSE k \in 1..Len(counter) : counter[k].word = word].count
    ELSE 1

\* counter.get(word, 0)
CounterGet(counter, word) ==
    IF word \in Keys(counter)
    THEN counter[CHOOSE k \in 1..Len(counter) : counter[k].word = word].count
    ELSE 0

\* counter[word] = v: a present key keeps its position, a new key goes last
CounterSet(counter, word, v) ==
    IF word \in Keys(counter)
    THEN [k \in 1..Len(counter) |->
             IF counter[k].word = word THEN Item(word, v) ELSE counter[k]]
    ELSE Append(counter, Item(word, v))

\* (mutation) the loop with 'counter[word] = 1' for its body
RECURSIVE CountFromNoIncrement(_, _, _)
CountFromNoIncrement(ws, k, counter) ==
    IF k > Len(ws) THEN counter
    ELSE CountFromNoIncrement(ws, k + 1, CounterSet(counter, ws[k], 1))

\* count_words_simple's loop from position k on
RECURSIVE CountFrom(_, _, _)
CountFrom(ws, k, counter) ==
    IF k > Len(ws) THEN counter
    ELSE CountFrom(ws, k + 1,
                   CounterSet(counter, ws[k], CounterGet(counter, ws[k]) + 1))

count_words_simple(ws) == CountFrom(ws, 1, <<>>)

\* (mutation) the inner loop with 'result[word] = count' for its body
RECURSIVE MergeItemsOverwrite(_, _, _)
MergeItemsOverwrite(result, counter, k) ==
    IF k > Len(counter) THEN result
    ELSE MergeItemsOverwrite(CounterSet(result, counter[k].word, counter[k].count),
                             counter, k + 1)

\* merge_counters' inner loop: the items of one counter added to result
RECURSIVE MergeItems(_, _, _)
MergeItems(result, counter, k) ==
    IF k > Len(counter) THEN result
    ELSE MergeItems(CounterSet(result, counter[k].word,
                               CounterGet(result, counter[k].word) + counter[k].count),
                    counter, k + 1)

\* merge_counters' outer loop
RECURSIVE MergeFrom(_, _, _)
MergeFrom(counter_list, k, result) ==
    IF k > Len(counter_list) THEN result
    ELSE MergeFrom(counter_list, k + 1, MergeItems(result, counter_list[k], 1))

merge_counters(counter_list) == MergeFrom(counter_list, 1, <<>>)

\* (mutation) the sort without reverse=True
InsertAsc(sorted, item) ==
    LET before == {k \in 1..Len(sorted) : sorted[k].count <= item.count}
        p == IF before = {} THEN 0 ELSE CHOOSE k \in before : \A j \in before : j <= k
    IN  SubSeq(sorted, 1, p) \o <<item>> \o SubSeq(sorted, p + 1, Len(sorted))

\* (mutation) a descending sort that reverses the items of equal count: an
\* item goes before every item already placed whose count is at most its own
InsertDescBeforeTies(sorted, item) ==
    LET before == {k \in 1..Len(sorted) : sorted[k].count > item.count}
        p == IF before = {} THEN 0 ELSE CHOOSE k \in before : \A j \in before : j <= k
    IN  SubSeq(sorted, 1, p) \o <<item>> \o SubSeq(sorted, p + 1, Len(sorted))

\* sorted(items, key=count, reverse=True) is stable: an item goes after every
\* item already placed whose count is at least its own
InsertDesc(sorted, item) ==
    LET before == {k \in 1..Len(sorted) : sorted[k].count >= item.count}
        p == IF before = {} THEN 0 ELSE CHOOSE k \in before : \A j \in before : j <= k
    IN  SubSeq(sorted, 1, p) \o <<item>> \o SubSeq(sorted, p + 1, Len(sorted))

RECURSIVE SortedDescFrom(_, _, _)
SortedDescFrom(items, k, sorted) ==
    IF k > Len(items) THEN sorted
    ELSE SortedDescFrom(items, k + 1, InsertDesc(sorted, items[k]))

SortedDesc(items) == SortedDescFrom(items, 1, <<>>)

\* seq[:n]
Slice(s, n) ==
    IF n >= 0 THEN SubSeq(s, 1, Min(n, Len(s)))
    ELSE SubSeq(s, 1, Max(Len(s) + n, 0))

get_top_words(counter, n) == Slice(SortedDesc(counter), n)

\* sum(counter.values())
RECURSIVE SumValues(_, _)
SumValues(counter, k) ==
    IF k > Len(counter) THEN 0 ELSE counter[k].count + SumValues(counter, k + 1)

\* get_top_words(total_counter, 10)
TopN == 10

\* the dict the three statistics computations return
Statistics(total_counter) ==
    [exc |-> FALSE,
     total_words |-> SumValues(total_counter, 1),
     unique_words |-> Len(total_counter),
     frequencies |-> total_counter,
     top_10 |-> get_top_words(total_counter, TopN)]

\* the outcome of a statistics computation that an exception leaves
StatsRaised ==
    [exc |-> TRUE, total_words |-> 0, unique_words |-> 0, frequencies |-> <<>>,
     top_10 |-> <<>>]

\* chunk_size = len(words) // 4
ChunkDivisor == 4

ChunkSize(ws) == Len(ws) \div ChunkDivisor

\* the chunking loop from offset i (0-based) on: 'for i in range(0, len(words),
\* chunk_size)' with its break on the last chunk
\* (mutation) four slices of chunk_size words, what is left being dropped
RECURSIVE ChunksFromFourSlices(_, _, _, _)
ChunksFromFourSlices(ws, chunk_size, i, acc) ==
    IF Len(acc) = 4 THEN acc
    ELSE ChunksFromFourSlices(ws, chunk_size, i + chunk_size,
                              Append(acc, SubSeq(ws, i + 1, i + chunk_size)))

\* the chunking loop 'for i in range(0, len(words), chunk_size)' from index i
\* on: a full chunk while words remain after it, else the rest and break
RECURSIVE ChunksFrom(_, _, _, _)
ChunksFrom(ws, chunk_size, i, acc) ==
    IF i >= Len(ws) THEN acc
    ELSE IF i + chunk_size < Len(ws)
         THEN ChunksFrom(ws, chunk_size, i + chunk_size,
                         Append(acc, SubSeq(ws, i + 1, i + chunk_size)))
         ELSE Append(acc, SubSeq(ws, i + 1, Len(ws)))

Chunks(ws) == ChunksFrom(ws, ChunkSize(ws), 0, <<>>)

\* range(0, len(words), chunk_size) raises ValueError when chunk_size is 0
RangeRaises(ws) == ChunkSize(ws) = 0

\* count_chunk_standalone(chunk)
count_chunk_standalone(chunk) == count_words_simple(chunk)

\* _compute_stats_multiprocessing_simple(words): pool.map returns the chunks'
\* counters in the order of the chunks
compute_stats_multiprocessing_simple(ws) ==
    IF RangeRaises(ws) THEN StatsRaised
    ELSE LET chunks == Chunks(ws)
             counters == [k \in 1..Len(chunks) |-> count_chunk_standalone(chunks[k])]
         IN  Statistics(merge_counters(counters))

\* (mutation) main's statistics computed by the chunked computation
compute_word_statistics_chunked(ws) == compute_stats_multiprocessing_simple(ws)

\* compute_word_statistics_simple(words, method): method is only printed
compute_word_statistics_simple(ws) == Statistics(count_words_simple(ws))

\* str < str: by code points, a proper prefix first
WordLess(a, b) ==
    \E k \in 1..(Len(b)) :
        /\ \A j \in 1..(k - 1) : j <= Len(a) /\ a[j] = b[j]
        /\ \/ k > Len(a)
           \/ k <= Len(a) /\ a[k] < b[k]

\* sorted(S) for a set of words
RECURSIVE SortedWords(_)
SortedWords(S) ==
    IF S = {} THEN <<>>
    ELSE LET m == CHOOSE w \in S : \A v \in S \ {w} : WordLess(w, v)
         IN  <<m>> \o SortedWords(S \ {m})
----------------------------------------------------------------------------
(* main and the three strategies of TextProcessor *)

\* (mutation) a pool with one process per entry of the folder
PoolPerFile == Len(dir)

\* multiprocessing.Pool(4)
PoolSize == 4

\* no statistics computation has returned yet
NoStats == [simple |-> <<>>, multiprocessing |-> <<>>, threading |-> <<>>]

NoProbe == [kind |-> "none"]

BatchResult(method, ws) == [method |-> method, words |-> ws]

NoFiles == [vocabulary |-> <<>>, vocabulary_stats |-> <<>>, performance |-> <<>>]

\* the state after TextProcessor() and before the first strategy, whatever
\* the input is
Constructed ==
    /\ filepaths = <<>>
    /\ all_words = <<>>
    /\ idx = 1
    /\ results = <<>>
    /\ threads = <<>>
    /\ wres = <<>>
    /\ lock = 0
    /\ self_results = <<>>
    /\ processed_files = 0
    /\ pool = [p \in 1..PoolSize |-> 0]
    /\ qnext = 1
    /\ all_results = <<>>
    /\ final_stats = <<>>
    /\ out_files = NoFiles
    /\ words = <<>>
    /\ word_chunks = <<>>
    /\ stats = NoStats
    /\ probe = NoProbe
    /\ finished = <<>>
    /\ opened = [k \in 1..Len(dir) |-> 0]

\* main on a data folder that exists and whose reads all return
Init ==
    /\ dir \in SeqsUpTo(EntryKinds, MaxFiles)
    /\ stuck = {}
    /\ listable = TRUE
    /\ pc = "seq_list"
    /\ Constructed

\* the history of a strategy that has not given any entry to a reader yet
NoneOpened == [k \in 1..Len(dir) |-> 0]

\* open(filepath) of a reader, recorded
Open(path) == [opened EXCEPT ![path] = @ + 1]

\* the reader's f.read() returns (it does not on an entry that blocks forever)
ReadReturns(path) == path \notin stuck

(* ---- process_with_sequential ---- *)

\* os.listdir raises when the folder cannot be listed, and nothing catches it
SeqList ==
    /\ pc = "seq_list"
    /\ filepaths' = IF listable THEN ListTxt(dir) ELSE <<>>
    /\ all_words' = <<>>
    /\ idx' = 1
    /\ opened' = NoneOpened
    /\ pc' = IF listable THEN "seq_loop" ELSE "crashed"
    /\ UNCHANGED <<statVars, finished, envVars, objVars, results, threads,
                   wres, lock, pool, qnext, all_results, final_stats,
                   out_files>>

\* one iteration of 'for filepath in filepaths'
SeqRead ==
    /\ pc = "seq_loop"
    /\ idx <= Len(filepaths)
    /\ ReadReturns(filepaths[idx])
    /\ LET r == read_and_clean_file(dir, filepaths[idx])
       IN  IF r.exc
           THEN pc' = "crashed" /\ UNCHANGED <<all_words, idx>>
           ELSE /\ all_words' = all_words \o r.words
                /\ idx' = idx + 1
                /\ pc' = pc
    /\ opened' = Open(filepaths[idx])
    /\ UNCHANGED <<statVars, finished, envVars, objVars, filepaths, results,
                   threads, wres, lock, pool, qnext, all_results, final_stats,
                   out_files>>

\* the return, and main's all_results['sequential'] = result_sequential
SeqReturn ==
    /\ pc = "seq_loop"
    /\ idx > Len(filepaths)
    /\ all_results' = Append(all_results, BatchResult("sequential", all_words))
    /\ pc' = "mp_list"
    /\ UNCHANGED <<statVars, opened, finished, envVars, objVars, filepaths,
                   all_words, idx, results, threads, wres, lock, pool, qnext,
                   final_stats, out_files>>

(* ---- process_with_multiprocessing ---- *)

\* the file list, and pool.map handing its tasks to the pool: one task per
\* file (map's chunk size is 1 up to 16 files), queued in list order
MpList ==
    /\ pc = "mp_list"
    /\ filepaths' = IF listable THEN ListTxt(dir) ELSE <<>>
    /\ all_words' = <<>>
    /\ results' = [k \in 1..Len(filepaths') |-> None]
    /\ pool' = [p \in 1..PoolSize |-> 0]
    /\ qnext' = 1
    /\ pc' = IF listable THEN "mp_map" ELSE "crashed"
    /\ finished' = <<>>
    /\ opened' = NoneOpened
    /\ UNCHANGED <<statVars, envVars, objVars, idx, threads, wres, lock,
                   all_results, final_stats, out_files>>

\* an idle process of the pool takes the next task of the queue
PoolTake(p) ==
    /\ pc = "mp_map"
    /\ pool[p] = 0
    /\ qnext <= Len(filepaths)
    /\ pool' = [pool EXCEPT ![p] = qnext]
    /\ qnext' = qnext + 1
    /\ UNCHANGED <<statVars, opened, finished, envVars, objVars, pc,
                   filepaths, all_words, idx, results, threads, wres, lock,
                   all_results, final_stats, out_files>>

\* (mutation) results stored in the order of completion, as imap_unordered does
MapSlotUnordered(task) == Len(finished) + 1

\* the slot of pool.map's result list a finished task fills: its own
MapSlot(task) == task

\* a process runs read_and_clean_file_standalone on its task and sends the
\* result back; map stores it at the task's position, and raises a task's
\* exception in the parent
PoolFinish(p) ==
    /\ pc = "mp_map"
    /\ pool[p] # 0
    /\ ReadReturns(filepaths[pool[p]])
    /\ opened' = Open(filepaths[pool[p]])
    /\ LET r == read_and_clean_file_standalone(dir, filepaths[pool[p]])
       IN  IF r.exc
           THEN pc' = "crashed" /\ UNCHANGED results
           ELSE /\ results' = [results EXCEPT ![MapSlot(pool[p])] = r]
                /\ pc' = pc
    /\ pool' = [pool EXCEPT ![p] = 0]
    /\ finished' = Append(finished, pool[p])
    /\ UNCHANGED <<statVars, envVars, objVars, filepaths, all_words, idx,
                   threads, wres, lock, qnext, all_results, final_stats,
                   out_files>>

\* pool.map returns once every task has delivered its result
MapDone == qnext > Len(filepaths) /\ \A p \in 1..PoolSize : pool[p] = 0

MpMapReturn ==
    /\ pc = "mp_map"
    /\ MapDone
    /\ idx' = 1
    /\ pc' = "mp_collect"
    /\ UNCHANGED <<statVars, opened, finished, envVars, objVars, filepaths,
                   all_words, results, threads, wres, lock, pool, qnext,
                   all_results, final_stats, out_files>>

\* one iteration of 'for filepath, words, proc_time in results'
MpCollect ==
    /\ pc = "mp_collect"
    /\ idx <= Len(results)
    /\ all_words' = all_words \o results[idx].words
    /\ idx' = idx + 1
    /\ UNCHANGED <<statVars, opened, finished, envVars, objVars, pc,
                   filepaths, results, threads, wres, lock, pool, qnext,
                   all_results, final_stats, out_files>>

MpReturn ==
    /\ pc = "mp_collect"
    /\ idx > Len(results)
    /\ all_results' = Append(all_results, BatchResult("multiprocessing", all_words))
    /\ pc' = "thr_list"
    /\ finished' = <<>>
    /\ UNCHANGED <<statVars, opened, envVars, objVars, filepaths, all_words,
                   idx, results, threads, wres, lock, pool, qnext,
                   final_stats, out_files>>
(* ---- process_with_threading ---- *)

\* the file list and 'results = [None] * len(filepaths)'; no thread exists yet
ThrList ==
    /\ pc = "thr_list"
    /\ filepaths' = IF listable THEN ListTxt(dir) ELSE <<>>
    /\ all_words' = <<>>
    /\ results' = [k \in 1..Len(filepaths') |-> None]
    /\ threads' = [k \in 1..Len(filepaths') |-> "unstarted"]
    /\ wres' = [k \in 1..Len(filepaths') |-> None]
    /\ idx' = 1
    /\ pc' = IF listable THEN "thr_start" ELSE "crashed"
    /\ finished' = <<>>
    /\ opened' = NoneOpened
    /\ UNCHANGED <<statVars, envVars, objVars, lock, pool, qnext, all_results,
                   final_stats, out_files>>

\* one iteration of the start loop: Thread(target=worker, args=(filepath,
\* results, i)), threads.append, thread.start()
ThrStart ==
    /\ pc = "thr_start"
    /\ idx <= Len(filepaths)
    /\ threads' = [threads EXCEPT ![idx] = "read"]
    /\ idx' = idx + 1
    /\ UNCHANGED <<statVars, opened, finished, envVars, objVars, pc,
                   filepaths, all_words, results, wres, lock, pool, qnext,
                   all_results, final_stats, out_files>>

ThrStartDone ==
    /\ pc = "thr_start"
    /\ idx > Len(filepaths)
    /\ idx' = 1
    /\ pc' = "thr_join"
    /\ UNCHANGED <<statVars, opened, finished, envVars, objVars, filepaths,
                   all_words, results, threads, wres, lock, pool, qnext,
                   all_results, final_stats, out_files>>

\* worker: result = self.read_and_clean_file(filepath); an exception ends
\* the thread
WorkerRead(i) ==
    /\ threads[i] = "read"
    /\ ReadReturns(filepaths[i])
    /\ opened' = Open(filepaths[i])
    /\ LET r == read_and_clean_file(dir, filepaths[i])
       IN  IF r.exc
           THEN threads' = [threads EXCEPT ![i] = "done"] /\ UNCHANGED wres
           ELSE /\ wres' = [wres EXCEPT ![i] = r]
                /\ threads' = [threads EXCEPT ![i] = "acquire"]
    /\ UNCHANGED <<statVars, finished, envVars, objVars, pc, filepaths,
                   all_words, idx, results, lock, pool, qnext, all_results,
                   final_stats, out_files>>

\* (mutation) a lock that never blocks
LockNeverBlocks == TRUE

\* self.lock.acquire() returns only when no thread holds the lock
LockFree == lock = 0

\* worker: entering 'with self.lock'
WorkerAcquire(i) ==
    /\ threads[i] = "acquire"
    /\ LockFree
    /\ lock' = i
    /\ threads' = [threads EXCEPT ![i] = "write"]
    /\ UNCHANGED <<statVars, opened, finished, envVars, objVars, pc,
                   filepaths, all_words, idx, results, wres, pool, qnext,
                   all_results, final_stats, out_files>>

\* (mutation) every worker writes the first slot
WorkerSlotShared(i) == 1

\* (mutation) the slot index off by one: worker i writes the slot after its own
WorkerSlotOffByOne(i) == IF i < Len(results) THEN i + 1 ELSE i

\* the slot worker i writes: results[index], index being its own number
WorkerSlot(i) == i

\* worker: results[index] = result
WorkerWrite(i) ==
    /\ threads[i] = "write"
    /\ results' = [results EXCEPT ![WorkerSlot(i)] = wres[i]]
    /\ threads' = [threads EXCEPT ![i] = "release"]
    /\ UNCHANGED <<statVars, opened, finished, envVars, objVars, pc,
                   filepaths, all_words, idx, wres, lock, pool, qnext,
                   all_results, final_stats, out_files>>

\* worker: leaving 'with self.lock'; the thread ends
WorkerRelease(i) ==
    /\ threads[i] = "release"
    /\ lock' = 0
    /\ threads' = [threads EXCEPT ![i] = "done"]
    /\ finished' = Append(finished, i)
    /\ UNCHANGED <<statVars, opened, envVars, objVars, pc, filepaths,
                   all_words, idx, results, wres, pool, qnext, all_results,
                   final_stats, out_files>>

\* (mutation) a join that does not wait
JoinedNoWait(i) == TRUE

\* (mutation) join(timeout): the parent goes on when the timeout expires
JoinedOrTimeout(i) == threads[i] \in {"read", "done"}

\* thread.join() returns when the thread has ended
Joined(i) == threads[i] = "done"

\* one iteration of 'for thread in threads: thread.join()'
ThrJoin ==
    /\ pc = "thr_join"
    /\ idx <= Len(threads)
    /\ Joined(idx)
    /\ idx' = idx + 1
    /\ UNCHANGED <<statVars, opened, finished, envVars, objVars, pc,
                   filepaths, all_words, results, threads, wres, lock, pool,
                   qnext, all_results, final_stats, out_files>>

ThrJoinDone ==
    /\ pc = "thr_join"
    /\ idx > Len(threads)
    /\ idx' = 1
    /\ pc' = "thr_collect"
    /\ UNCHANGED <<statVars, opened, finished, envVars, objVars, filepaths,
                   all_words, results, threads, wres, lock, pool, qnext,
                   all_results, final_stats, out_files>>

\* one iteration of 'for result in results: if result: ...'
ThrCollect ==
    /\ pc = "thr_collect"
    /\ idx <= Len(results)
    /\ all_words' = IF Truthy(results[idx]) THEN all_words \o results[idx].words
                    ELSE all_words
    /\ idx' = idx + 1
    /\ UNCHANGED <<statVars, opened, finished, envVars, objVars, pc,
                   filepaths, results, threads, wres, lock, pool, qnext,
                   all_results, final_stats, out_files>>

ThrReturn ==
    /\ pc = "thr_collect"
    /\ idx > Len(results)
    /\ all_results' = Append(all_results, BatchResult("threading", all_words))
    /\ pc' = "stats"
    /\ finished' = <<>>
    /\ UNCHANGED <<statVars, opened, envVars, objVars, filepaths, all_words,
                   idx, results, threads, wres, lock, pool, qnext,
                   final_stats, out_files>>

(* ---- the rest of main ---- *)

\* all_results[method]['words']
WordsOf(method) ==
    all_results[CHOOSE k \in 1..Len(all_results) : all_results[k].method = method].words

\* best_words = result_sequential['words']; both statistics calls run
\* compute_word_statistics_simple on it; final_stats = stats_threading
MainStats ==
    /\ pc = "stats"
    /\ LET st == compute_word_statistics_simple(WordsOf("sequential"))
       IN  IF st.exc
           THEN pc' = "crashed" /\ UNCHANGED final_stats
           ELSE final_stats' = <<st>> /\ pc' = "write"
    /\ UNCHANGED <<statVars, opened, finished, envVars, objVars, filepaths,
                   all_words, idx, results, threads, wres, lock, pool, qnext,
                   all_results, out_files>>

\* the permutations of 1..n: the orders sorted(..., key=total_time) can give
Perms(n) == {f \in [1..n -> 1..n] : \A a, b \in 1..n : a # b => f[a] # f[b]}

\* write_output_files(all_results, output_folder)
WriteOutputFiles ==
    /\ pc = "write"
    /\ \E order \in Perms(Len(all_results)) :
          LET ws == all_results[1].words
              word_counter == count_words_simple(ws)
              top_words == get_top_words(word_counter, 10)
              unique_words == SortedWords(Keys(word_counter))
          IN  out_files' =
                 [vocabulary |-> <<unique_words>>,
                  vocabulary_stats |-> <<[total |-> Len(ws),
                                          unique |-> Len(unique_words),
                                          top |-> top_words]>>,
                  performance |-> <<[k \in 1..Len(all_results) |->
                                       [method |-> all_results[order[k]].method,
                                        words_processed |-> Len(all_results[order[k]].words)]]>>]
    /\ pc' = "write_trad"
    /\ UNCHANGED <<statVars, opened, finished, envVars, objVars, filepaths,
                   all_words, idx, results, threads, wres, lock, pool, qnext,
                   all_results, final_stats>>

\* write_traditional_output_files(final_stats, output_folder)
WriteTraditional ==
    /\ pc = "write_trad"
    /\ LET st == final_stats[1]
       IN  out_files' =
              [out_files EXCEPT
                 !.vocabulary = <<SortedWords(Keys(st.frequencies))>>,
                 !.vocabulary_stats = <<[total |-> st.total_words,
                                         unique |-> st.unique_words,
                                         top |-> st.top_10]>>]
    /\ pc' = "done"
    /\ UNCHANGED <<statVars, opened, finished, envVars, objVars, filepaths,
                   all_words, idx, results, threads, wres, lock, pool, qnext,
                   all_results, final_stats>>

Next ==
    \/ SeqList \/ SeqRead \/ SeqReturn
    \/ MpList \/ (\E p \in 1..PoolSize : PoolTake(p))
    \/ (\E p \in 1..PoolSize : PoolFinish(p))
    \/ MpMapReturn \/ MpCollect \/ MpReturn
    \/ ThrList \/ ThrStart \/ ThrStartDone
    \/ (\E i \in DOMAIN threads : WorkerRead(i))
    \/ (\E i \in DOMAIN threads : WorkerAcquire(i))
    \/ (\E i \in DOMAIN threads : WorkerWrite(i))
    \/ (\E i \in DOMAIN threads : WorkerRelease(i))
    \/ ThrJoin \/ ThrJoinDone \/ ThrCollect \/ ThrReturn
    \/ MainStats \/ WriteOutputFiles \/ WriteTraditional

Spec == Init /\ [][Next]_vars

----------------------------------------------------------------------------
(* process_with_multiprocessing on its own, on folders with more files     *)
(* than the pool has processes                                             *)

\* a folder of n readable .txt files
PoolDir(n) ==
    [k \in 1..n |-> IF k % 2 = 1 THEN Entry(TRUE, TRUE, TextA)
                                 ELSE Entry(TRUE, TRUE, TextB)]

InitPool ==
    /\ \E n \in 0..MaxPoolFiles : dir = PoolDir(n)
    /\ stuck = {}
    /\ listable = TRUE
    /\ pc = "mp_list"
    /\ Constructed

NextPool ==
    \/ MpList
    \/ \E p \in 1..PoolSize : PoolTake(p) \/ PoolFinish(p)
    \/ MpMapReturn
    \/ MpCollect
    \/ MpReturn

SpecPool == InitPool /\ [][NextPool]_vars

----------------------------------------------------------------------------
(* main on any data folder: one that holds subdirectories, or one that     *)
(* os.listdir cannot list (it does not exist, or it is not a directory)    *)

DirKinds == EntryKinds \cup {SubDir(TRUE), SubDir(FALSE)}

InitDir ==
    /\ listable \in BOOLEAN
    /\ dir \in IF listable THEN SeqsUpTo(DirKinds, MaxDirEntries) ELSE {<<>>}
    /\ stuck = {}
    /\ pc = "seq_list"
    /\ Constructed

SpecDir == InitDir /\ [][Next]_vars

----------------------------------------------------------------------------
(* The strategies under fair scheduling, each one started on its own, on   *)
(* folders some of whose reads never return                                *)

\* a .txt file that opens and one that does not
LiveKinds == {Entry(TRUE, TRUE, TextB), Entry(TRUE, FALSE, TextA)}

InitLive ==
    /\ dir \in SeqsUpTo(LiveKinds, MaxLiveFiles)
    /\ stuck \in SUBSET {k \in 1..Len(dir) : dir[k].txt /\ dir[k].ok}
    /\ listable = TRUE
    /\ pc \in {"seq_list", "mp_list", "thr_list"}
    /\ Constructed

\* the steps of the calling thread
Parent ==
    \/ SeqList \/ SeqRead \/ SeqReturn
    \/ MpList \/ MpMapReturn \/ MpCollect \/ MpReturn
    \/ ThrList \/ ThrStart \/ ThrStartDone
    \/ ThrJoin \/ ThrJoinDone \/ ThrCollect \/ ThrReturn

\* the steps of worker thread i, and of process p of the pool
Worker(i) ==
    /\ i \in DOMAIN threads
    /\ WorkerRead(i) \/ WorkerAcquire(i) \/ WorkerWrite(i) \/ WorkerRelease(i)

PoolProcess(p) == PoolTake(p) \/ PoolFinish(p)

NextLive ==
    \/ Parent
    \/ \E i \in 1..MaxLiveFiles : Worker(i)
    \/ \E p \in 1..PoolSize : PoolProcess(p)

\* every thread and every process that can take a step is scheduled
\* eventually
Fairness ==
    /\ WF_vars(Parent)
    /\ \A i \in 1..MaxLiveFiles : WF_vars(Worker(i))
    /\ \A p \in 1..PoolSize : WF_vars(PoolProcess(p))

SpecLive == InitLive /\ [][NextLive]_vars /\ Fairness

----------------------------------------------------------------------------
(* The statistics computations run on a word sequence of their own *)

\* the words "a", "b" and "ab"
WordSet == {<<97>>, <<98>>, <<97, 98>>}

\* the state of the strategies, which the statistics computations leave alone
fileVars == <<envVars, objVars, opened, filepaths, all_words, wres, lock, pool,
              qnext, all_results, final_stats, out_files, finished>>

InitStats ==
    /\ words \in SeqsUpTo(WordSet, MaxWords)
    /\ pc = "stat_simple"
    /\ word_chunks = <<>>
    /\ stats = NoStats
    /\ probe = NoProbe
    /\ idx = 1
    /\ results = <<>>
    /\ threads = <<>>
    /\ dir = <<>>
    /\ filepaths = <<>>
    /\ all_words = <<>>
    /\ wres = <<>>
    /\ lock = 0
    /\ self_results = <<>>
    /\ processed_files = 0
    /\ pool = [p \in 1..PoolSize |-> 0]
    /\ qnext = 1
    /\ all_results = <<>>
    /\ final_stats = <<>>
    /\ out_files = NoFiles
    /\ finished = <<>>
    /\ opened = [k \in 1..Len(dir) |-> 0]
    /\ stuck = {}
    /\ listable = TRUE

\* compute_word_statistics_simple(words)
StatSimple ==
    /\ pc = "stat_simple"
    /\ stats' = [stats EXCEPT !.simple = <<compute_word_statistics_simple(words)>>]
    /\ pc' = "stat_mp"
    /\ UNCHANGED <<fileVars, words, word_chunks, probe, idx, results,
                   threads>>

\* _compute_stats_multiprocessing_simple(words)
StatMultiprocessing ==
    /\ pc = "stat_mp"
    /\ stats' = [stats EXCEPT
                    !.multiprocessing = <<compute_stats_multiprocessing_simple(words)>>]
    /\ pc' = "stat_thr"
    /\ UNCHANGED <<fileVars, words, word_chunks, probe, idx, results,
                   threads>>

\* a slot of the counting threads' results: None, or a counter
NoCounter == <<>>

SomeCounter(counter) == <<counter>>

\* _compute_stats_threading_simple(words) up to 'threads = []': the chunking
\* loop, whose range() raises for a chunk size of 0, and the slot array
StatThrChunk ==
    /\ pc = "stat_thr"
    /\ IF RangeRaises(words)
       THEN /\ stats' = [stats EXCEPT !.threading = <<StatsRaised>>]
            /\ pc' = "stat_done"
            /\ UNCHANGED <<word_chunks, results, threads, idx>>
       ELSE /\ word_chunks' = Chunks(words)
            /\ results' = [k \in 1..Len(Chunks(words)) |-> NoCounter]
            /\ threads' = [k \in 1..Len(Chunks(words)) |-> "unstarted"]
            /\ idx' = 1
            /\ pc' = "stat_thr_start"
            /\ UNCHANGED stats
    /\ UNCHANGED <<fileVars, words, probe>>

\* one iteration of the start loop of the counting threads
StatThrStart ==
    /\ pc = "stat_thr_start"
    /\ idx <= Len(word_chunks)
    /\ threads' = [threads EXCEPT ![idx] = "count"]
    /\ idx' = idx + 1
    /\ UNCHANGED <<fileVars, statVars, pc, results>>

StatThrStartDone ==
    /\ pc = "stat_thr_start"
    /\ idx > Len(word_chunks)
    /\ idx' = 1
    /\ pc' = "stat_thr_join"
    /\ UNCHANGED <<fileVars, statVars, results, threads>>

\* count_words: counter = count_words_simple(chunk); results[index] = counter
CountWorker(i) ==
    /\ pc \in {"stat_thr_start", "stat_thr_join"}
    /\ threads[i] = "count"
    /\ results' = [results EXCEPT ![i] = SomeCounter(count_words_simple(word_chunks[i]))]
    /\ threads' = [threads EXCEPT ![i] = "done"]
    /\ UNCHANGED <<fileVars, statVars, pc, idx>>

\* one iteration of 'for thread in threads: thread.join()'
StatThrJoin ==
    /\ pc = "stat_thr_join"
    /\ idx <= Len(threads)
    /\ Joined(idx)
    /\ idx' = idx + 1
    /\ UNCHANGED <<fileVars, statVars, pc, results, threads>>

\* [r for r in results if r is not None]
RECURSIVE NotNone(_, _)
NotNone(slots, k) ==
    IF k > Len(slots) THEN <<>>
    ELSE (IF slots[k] = NoCounter THEN <<>> ELSE <<slots[k][1]>>) \o NotNone(slots, k + 1)

\* the merge of the slots and the return
StatThrMerge ==
    /\ pc = "stat_thr_join"
    /\ idx > Len(threads)
    /\ stats' = [stats EXCEPT
                    !.threading = <<Statistics(merge_counters(NotNone(results, 1)))>>]
    /\ pc' = "stat_done"
    /\ UNCHANGED <<fileVars, words, word_chunks, probe, idx, results,
                   threads>>

\* the cuts of a sequence of length n into parts consecutive chunks: the
\* non-decreasing sequences of parts - 1 positions in 0..n
Cuts(n, parts) ==
    {c \in [1..(parts - 1) -> 0..n] : \A a \in 1..(parts - 2) : c[a] <= c[a + 1]}

\* the chunks of ws that the cuts c give
ChunksAt(ws, c) ==
    [k \in 1..(Len(c) + 1) |->
        SubSeq(ws, (IF k = 1 THEN 0 ELSE c[k - 1]) + 1,
                   IF k = Len(c) + 1 THEN Len(ws) ELSE c[k])]

\* merge_counters([count_words_simple(C1), ..., count_words_simple(Ck)])
MergePartition ==
    /\ pc = "stat_done"
    /\ \E parts \in 1..MaxParts : \E c \in Cuts(Len(words), parts) :
          LET chunks == ChunksAt(words, c)
          IN  probe' = [kind |-> "merge", chunks |-> chunks,
                        merged |-> merge_counters(
                            [k \in 1..Len(chunks) |-> count_words_simple(chunks[k])])]
    /\ pc' = "probed"
    /\ UNCHANGED <<fileVars, words, word_chunks, stats, idx, results,
                   threads>>

\* merge_counters([A, B]) and merge_counters([B, A]) for the counters A and
\* B of a prefix of the words and of the rest
MergePair ==
    /\ pc = "stat_done"
    /\ \E c \in 0..Len(words) :
          LET A == count_words_simple(SubSeq(words, 1, c))
              B == count_words_simple(SubSeq(words, c + 1, Len(words)))
          IN  probe' = [kind |-> "pair", a |-> A, b |-> B,
                        ab |-> merge_counters(<<A, B>>),
                        ba |-> merge_counters(<<B, A>>)]
    /\ pc' = "probed"
    /\ UNCHANGED <<fileVars, words, word_chunks, stats, idx, results,
                   threads>>

\* get_top_words(count_words_simple(words), n)
TopWords ==
    /\ pc = "stat_done"
    /\ \E n \in 0..MaxTop :
          probe' = [kind |-> "top", n |-> n,
                    top |-> get_top_words(count_words_simple(words), n)]
    /\ pc' = "probed"
    /\ UNCHANGED <<fileVars, words, word_chunks, stats, idx, results,
                   threads>>

NextStats ==
    \/ StatSimple \/ StatMultiprocessing \/ StatThrChunk
    \/ StatThrStart \/ StatThrStartDone
    \/ (\E i \in DOMAIN threads : CountWorker(i))
    \/ StatThrJoin \/ StatThrMerge
    \/ MergePartition \/ MergePair \/ TopWords

SpecStats == InitStats /\ [][NextStats]_vars

----------------------------------------------------------------------------
(* The statistics computations on longer word sequences, one sequence per  *)
(* length, its words pairwise different                                    *)

\* the word sequence "a", "b", "c", ... of n words
Alphabet(n) == [k \in 1..n |-> <<96 + k>>]

InitChunk ==
    /\ \E n \in 0..MaxChunkWords : words = Alphabet(n)
    /\ pc = "stat_simple"
    /\ word_chunks = <<>>
    /\ stats = NoStats
    /\ probe = NoProbe
    /\ idx = 1
    /\ results = <<>>
    /\ threads = <<>>
    /\ dir = <<>>
    /\ filepaths = <<>>
    /\ all_words = <<>>
    /\ wres = <<>>
    /\ lock = 0
    /\ self_results = <<>>
    /\ processed_files = 0
    /\ pool = [p \in 1..PoolSize |-> 0]
    /\ qnext = 1
    /\ all_results = <<>>
    /\ final_stats = <<>>
    /\ out_files = NoFiles
    /\ finished = <<>>
    /\ opened = <<>>
    /\ stuck = {}
    /\ listable = TRUE

SpecChunk == InitChunk /\ [][NextStats]_vars


----------------------------------------------------------------------------
(* The two readers run on one file of their own *)

\* the characters 'A', 'a', 'b', '1', '-', ' ', the line feed, and the en
\* dash U+2013, a punctuation mark that string.punctuation does not hold
Chars == {65, 97, 98, 49, 45, 32, 10, 8211}

\* "Hello, World! 123 foo-bar"
ExampleText ==
    <<72, 101, 108, 108, 111, 44, 32, 87, 111, 114, 108, 100, 33, 32, 49, 50, 51,
      32, 102, 111, 111, 45, 98, 97, 114>>

InitTok ==
    /\ \E text \in SeqsUpTo(Chars, MaxText) \cup {ExampleText} : \E ok \in BOOLEAN :
          dir = <<Entry(TRUE, ok, text)>>
    /\ pc = "tok_method"
    /\ results = <<>>
    /\ wres = <<>>
    /\ filepaths = <<>>
    /\ all_words = <<>>
    /\ idx = 1
    /\ threads = <<>>
    /\ lock = 0
    /\ self_results = <<>>
    /\ processed_files = 0
    /\ pool = [p \in 1..PoolSize |-> 0]
    /\ qnext = 1
    /\ all_results = <<>>
    /\ final_stats = <<>>
    /\ out_files = NoFiles
    /\ finished = <<>>
    /\ opened = [k \in 1..Len(dir) |-> 0]
    /\ stuck = {}
    /\ listable = TRUE
    /\ words = <<>>
    /\ word_chunks = <<>>
    /\ stats = NoStats
    /\ probe = NoProbe

\* a call of TextProcessor.read_and_clean_file on the file
TokMethod ==
    /\ pc = "tok_method"
    /\ results' = <<read_and_clean_file(dir, 1)>>
    /\ pc' = "tok_standalone"
    /\ UNCHANGED <<statVars, opened, envVars, objVars, wres, filepaths,
                   all_words, idx, threads, lock, pool, qnext, all_results,
                   final_stats, out_files, finished>>

\* a call of read_and_clean_file_standalone on the file
TokStandalone ==
    /\ pc = "tok_standalone"
    /\ wres' = <<read_and_clean_file_standalone(dir, 1)>>
    /\ pc' = "tok_done"
    /\ UNCHANGED <<statVars, opened, envVars, objVars, results, filepaths,
                   all_words, idx, threads, lock, pool, qnext, all_results,
                   final_stats, out_files, finished>>

NextTok == TokMethod \/ TokStandalone

SpecTok == InitTok /\ [][NextTok]_vars

----------------------------------------------------------------------------
(* Properties of the three strategies and of main, checked under Spec *)

\* the number of occurrences of w in the sequence s
Occ(s, w) == Cardinality({k \in 1..Len(s) : s[k] = w})

SameMultiset(a, b) == \A w \in Range(a) \cup Range(b) : Occ(a, w) = Occ(b, w)

Returned(method) == \E k \in 1..Len(all_results) : all_results[k].method = method

Strategies == {"sequential", "multiprocessing", "threading"}

\* the .txt entries of d that cannot be opened, and those that can
Unreadable(d) == {k \in 1..Len(d) : d[k].txt /\ ~d[k].ok}

Readable(d) == {k \in 1..Len(d) : d[k].txt /\ d[k].ok}

\* C1: on one directory snapshot the three strategies return word lists
\* that are equal as multisets, whatever the interleaving of the workers:
\* every strategy that has returned agrees with every other one.
C1_SameWordMultiset ==
    \A m1, m2 \in Strategies :
        Returned(m1) /\ Returned(m2) => SameMultiset(WordsOf(m1), WordsOf(m2))

\* all three strategies have returned, on a directory with a readable file, an
\* unreadable one and at least two workers, the second finishing first
C1_Witness ==
    /\ pc = "thr_collect" /\ idx > Len(results)
    /\ Returned("sequential") /\ Returned("multiprocessing")
    /\ Unreadable(dir) # {} /\ Readable(dir) # {}
    /\ all_words # <<>>
    /\ Len(finished) >= 2 /\ finished[1] > finished[2]

\* the per-file word lists of the files of paths, concatenated in that order
RECURSIVE ConcatWords(_, _, _)
ConcatWords(d, paths, k) ==
    IF k > Len(paths) THEN <<>>
    ELSE read_and_clean_file(d, paths[k]).words \o ConcatWords(d, paths, k + 1)

\* C2: the threaded and the multiprocess strategy return the concatenation
\* of the per-file word lists in discovery order, whatever order the workers
\* finish in, which is the very sequence the sequential strategy returns.
C2_DiscoveryOrder ==
    \A m \in {"threading", "multiprocessing"} :
        Returned(m) => /\ WordsOf(m) = ConcatWords(dir, ListTxt(dir), 1)
                       /\ WordsOf(m) = WordsOf("sequential")

\* the multiprocess strategy returns, its tasks having completed out of
\* order, on files with different, non-empty word lists
C2_WitnessPool ==
    /\ pc = "mp_collect" /\ idx > Len(results)
    /\ Len(finished) >= 2 /\ finished[1] > finished[2]
    /\ results[1].words # <<>> /\ results[2].words # <<>>
    /\ results[1].words # results[2].words

\* the same for the threaded strategy
C2_Witness ==
    /\ pc = "thr_collect" /\ idx > Len(results)
    /\ Len(finished) >= 2 /\ finished[1] > finished[2]
    /\ results[1].words # <<>> /\ results[2].words # <<>>
    /\ results[1].words # results[2].words

\* d with every entry that cannot be opened replaced by an empty file
Emptied(d) ==
    [k \in 1..Len(d) |-> IF d[k].ok THEN d[k] ELSE Entry(d[k].txt, TRUE, <<>>)]

\* the words of the texts of the .txt entries of d, from entry k on
RECURSIVE TextWords(_, _)
TextWords(d, k) ==
    IF k > Len(d) THEN <<>>
    ELSE (IF d[k].txt THEN CleanWords(d[k].text) ELSE <<>>) \o TextWords(d, k + 1)

\* C5: a file whose read raises does not abort any of the three strategies,
\* and each strategy returns what it would return were that file empty: all
\* the words of the other files.
C5_ReadErrorIsEmptyFile ==
    /\ pc # "crashed"
    /\ \A m \in Strategies : Returned(m) => WordsOf(m) = TextWords(Emptied(dir), 1)

\* the three strategies have returned words on a directory with a file that
\* cannot be opened
C5_Witness ==
    /\ Returned("sequential") /\ Returned("multiprocessing") /\ Returned("threading")
    /\ Unreadable(dir) # {}
    /\ WordsOf("threading") # <<>>

\* C9: on a directory without any .txt entry nothing raises, each strategy
\* returns no word, the statistics are total_words = 0, unique_words = 0,
\* top_10 = [], and at the end of the run the three output files are
\* written, with no vocabulary line and no ranked entry.
C9_EmptyDirectory ==
    ListTxt(dir) = <<>> =>
        /\ pc # "crashed"
        /\ \A k \in 1..Len(all_results) : all_results[k].words = <<>>
        /\ \A k \in 1..Len(final_stats) :
              /\ final_stats[k].total_words = 0
              /\ final_stats[k].unique_words = 0
              /\ final_stats[k].top_10 = <<>>
        /\ pc \in {"write_trad", "done"} =>
              /\ out_files.vocabulary = << <<>> >>
              /\ Len(out_files.vocabulary_stats) = 1
              /\ out_files.vocabulary_stats[1].total = 0
              /\ out_files.vocabulary_stats[1].unique = 0
              /\ out_files.vocabulary_stats[1].top = <<>>
              /\ Len(out_files.performance) = 1
              /\ {out_files.performance[1][k].method : k \in 1..3} = Strategies
              /\ \A k \in 1..3 : out_files.performance[1][k].words_processed = 0

\* the run has ended on a directory that holds entries, none of them .txt
C9_Witness == pc = "done" /\ dir # <<>> /\ ListTxt(dir) = <<>>

\* C10: the threaded strategy collects only after every worker has ended:
\* from the start of the collection on every thread is done and every slot
\* holds a FileResult, so that 'if result' skips no slot.
C10_CollectAfterJoin ==
    /\ pc = "thr_join" => \A j \in 1..(idx - 1) : threads[j] = "done"
    /\ pc = "thr_collect" =>
          \A j \in 1..Len(results) : threads[j] = "done" /\ Truthy(results[j])

\* the collection starts over at least two slots
C10_Witness == pc = "thr_collect" /\ idx = 1 /\ Len(results) >= 2
----------------------------------------------------------------------------
(* Properties of the word counters and of the statistics computations,     *)
(* checked under SpecStats                                                 *)

\* dict == dict: the same keys with the same values, whatever the order
DictEq(a, b) == Range(a) = Range(b) /\ Len(a) = Len(b)

\* the statistics computation m has ended, by a return or by an exception
Ended(m) == stats[m] # <<>>

Computations == {"simple", "multiprocessing", "threading"}

\* the number of distinct words of ws
Distinct(ws) == Cardinality(Range(ws))

\* C3 (as claimed): for every word sequence, those of fewer than 4 words
\* and the empty one included, the direct computation and the two chunked
\* computations all return, with equal 'frequencies', equal 'total_words' and
\* 'unique_words', and the same 'top_10' list in the same order.
C3_AllComputationsAgree ==
    \A m \in Computations :
        Ended(m) /\ Ended("simple") =>
            /\ ~stats[m][1].exc
            /\ DictEq(stats[m][1].frequencies, stats["simple"][1].frequencies)
            /\ stats[m][1].total_words = stats["simple"][1].total_words
            /\ stats[m][1].unique_words = stats["simple"][1].unique_words
            /\ stats[m][1].top_10 = stats["simple"][1].top_10

\* C3 (what the code does): a chunked computation raises exactly on the
\* sequences of fewer than 4 words, and from 4 words on it returns what the
\* direct computation returns.
C3_AgreeFromFourWords ==
    \A m \in Computations :
        Ended(m) /\ Ended("simple") =>
            /\ stats[m][1].exc <=> (m # "simple" /\ Len(words) < ChunkDivisor)
            /\ ~stats[m][1].exc =>
                  /\ DictEq(stats[m][1].frequencies, stats["simple"][1].frequencies)
                  /\ stats[m][1].total_words = stats["simple"][1].total_words
                  /\ stats[m][1].unique_words = stats["simple"][1].unique_words
                  /\ stats[m][1].top_10 = stats["simple"][1].top_10

\* the three computations have returned on a sequence with a repeated word
C3_Witness ==
    /\ \A m \in Computations : Ended(m) /\ ~stats[m][1].exc
    /\ Distinct(words) < Len(words)
    /\ Distinct(words) > 1

\* C4: for every partition of the word sequence into consecutive chunks,
\* empty ones included, merging the chunks' counters gives the counter of
\* the whole sequence, as a mapping.
C4_MergeOfPartition ==
    pc = "probed" /\ probe.kind = "merge" =>
        DictEq(probe.merged, count_words_simple(words))

\* a merge over three chunks, one of them empty, the two others sharing a word
C4_Witness ==
    /\ pc = "probed" /\ probe.kind = "merge"
    /\ Len(probe.chunks) = 3
    /\ \E a, b, c \in 1..3 :
          /\ a < b
          /\ probe.chunks[c] = <<>>
          /\ Range(probe.chunks[a]) \cap Range(probe.chunks[b]) # {}

\* C6: the Statistics returned for a word sequence have total_words equal to
\* the sum of the values of 'frequencies' and to the length of the sequence,
\* and unique_words equal to the number of keys of 'frequencies' and to the
\* number of distinct words of the sequence.
C6_TotalsMatchInput ==
    \A m \in Computations :
        Ended(m) /\ ~stats[m][1].exc =>
            LET st == stats[m][1]
            IN  /\ st.total_words = SumValues(st.frequencies, 1)
                /\ st.total_words = Len(words)
                /\ st.unique_words = Cardinality(Keys(st.frequencies))
                /\ st.unique_words = Distinct(words)
                /\ \A w \in Range(words) : CounterGet(st.frequencies, w) = Occ(words, w)

\* the direct computation has returned on a sequence with a repeated word
C6_Witness ==
    /\ Ended("simple")
    /\ Distinct(words) > 1
    /\ Distinct(words) < Len(words)

\* C7: for n >= 0, get_top_words(count_words_simple(W), n) has exactly
\* min(n, number of distinct words of W) entries, each a distinct word of W
\* with its count, in non-increasing order of count, and no omitted word has
\* a count above the smallest count listed.
C7_TopWords ==
    pc = "probed" /\ probe.kind = "top" =>
        LET top == probe.top
            listed == {top[k].word : k \in 1..Len(top)}
        IN  /\ Len(top) = Min(probe.n, Distinct(words))
            /\ Cardinality(listed) = Len(top)
            /\ \A k \in 1..Len(top) :
                  top[k].word \in Range(words) /\ top[k].count = Occ(words, top[k].word)
            /\ \A k \in 1..(Len(top) - 1) : top[k].count >= top[k + 1].count
            /\ \A w \in Range(words) \ listed :
                  \A k \in 1..Len(top) : Occ(words, w) <= top[k].count

\* a top-2 query on three distinct words of which the rarest came first
C7_Witness ==
    /\ pc = "probed" /\ probe.kind = "top"
    /\ probe.n = 2
    /\ Distinct(words) = 3
    /\ \A w \in Range(words) \ {words[1]} : Occ(words, w) > Occ(words, words[1])
----------------------------------------------------------------------------
(* Properties of the readers, checked under SpecTok *)

\* the positions of text at which a maximal run of non-whitespace starts
RunStarts(text) ==
    {i \in 1..Len(text) :
        text[i] \notin Whitespace /\ (i = 1 \/ text[i - 1] \in Whitespace)}

\* the last position of the run that starts at i
RunEnd(text, i) ==
    CHOOSE j \in i..Len(text) :
        /\ \A k \in i..j : text[k] \notin Whitespace
        /\ j = Len(text) \/ text[j + 1] \in Whitespace

\* what is left of one run: its characters that are no punctuation, lowercased
Stripped(run) ==
    LET kept == SelectSeq(run, LAMBDA c : c \notin Punctuation)
    IN  [k \in 1..Len(kept) |-> Lower(kept[k])]

\* the tokens of text as the claim describes them, run by run from position i on
RECURSIVE TokensFrom(_, _)
TokensFrom(text, i) ==
    IF \A s \in RunStarts(text) : s < i THEN <<>>
    ELSE LET s == CHOOSE a \in RunStarts(text) :
                      a >= i /\ \A b \in RunStarts(text) : b >= i => a <= b
             e == RunEnd(text, s)
             w == Stripped(SubSeq(text, s, e))
         IN  (IF w # <<>> /\ \A k \in 1..Len(w) : IsAlphaChar(w[k]) THEN <<w>> ELSE <<>>)
                 \o TokensFrom(text, e + 1)

\* ["hello", "world", "foobar"]
ExampleWords ==
    << <<104, 101, 108, 108, 111>>, <<119, 111, 114, 108, 100>>,
       <<102, 111, 111, 98, 97, 114>> >>

C8_WitnessJoined ==
    /\ pc = "tok_done"
    /\ dir[1].ok /\ dir[1].text = <<97, 45, 98, 32>>
    /\ results[1].words = << <<97, 98>> >>
----------------------------------------------------------------------------
(* Properties of the threaded strategy's slot array and lock, checked      *)
(* under Spec                                                              *)

\* the threaded strategy is between the creation of its slot array and its
\* return
ThrPhase == pc \in {"thr_start", "thr_join", "thr_collect"}

\* C11: in the threaded strategy there is one worker per discovered file,
\* each started once; the slot array has the length of the file list from
\* before the first start on and keeps it; and a slot changes only once,
\* from None to the result of its own file, by the write of its own worker.
C11_OneWorkerOneSlot ==
    /\ [](ThrPhase =>
            /\ Len(results) = Len(filepaths)
            /\ DOMAIN threads = 1..Len(filepaths)
            /\ \A j \in 1..Len(results) :
                  Truthy(results[j]) =>
                      /\ results[j].filepath = filepaths[j]
                      /\ threads[j] \in {"release", "done"}
            /\ pc # "thr_start" => \A j \in DOMAIN threads : threads[j] # "unstarted")
    /\ [][ThrPhase /\ ThrPhase' =>
            /\ Len(results') = Len(results)
            /\ \A j \in 1..Len(results) :
                  results'[j] # results[j] =>
                      /\ results[j] = None
                      /\ threads[j] = "write" /\ threads'[j] = "release"
            /\ \A j \in DOMAIN threads :
                  threads'[j] # threads[j] /\ threads[j] = "unstarted" =>
                      pc = "thr_start" /\ idx = j /\ threads'[j] = "read"
            /\ \A j \in DOMAIN threads :
                  threads'[j] = "unstarted" => threads[j] = "unstarted"]_vars

\* three workers have written their slots, the last one first
C11_Witness ==
    /\ pc = "thr_join"
    /\ Len(results) = 3
    /\ \A j \in 1..3 : Truthy(results[j])
    /\ finished[1] = 3

\* the workers inside 'with self.lock', and those inside read_and_clean_file
InLock == {i \in DOMAIN threads : threads[i] \in {"write", "release"}}

Tokenizing == {i \in DOMAIN threads : threads[i] = "read"}

\* C12: at most one worker at a time is inside the section the lock guards,
\* the lock is held by that worker and by no other, it is free again once
\* the writes are over (the last one included), and no worker holds it while
\* it tokenizes, so that several workers tokenize at the same time.
C12_LockGuardsOnlyTheWrite ==
    ThrPhase =>
        /\ Cardinality(InLock) <= 1
        /\ \A i \in DOMAIN threads : i \in InLock <=> lock = i
        /\ InLock = {} => lock = 0
        /\ \A i \in Tokenizing : lock # i
        /\ (\A i \in DOMAIN threads : threads[i] = "done") => lock = 0

\* two workers tokenize while a third one holds the lock
C12_Witness ==
    /\ ThrPhase
    /\ Cardinality(Tokenizing) >= 2
    /\ Cardinality(InLock) = 1
----------------------------------------------------------------------------
(* Properties of the pool, checked under SpecPool *)

\* the processes of the pool that run a task, and the tasks by their state
Running == {p \in DOMAIN pool : pool[p] # 0}

RunningTasks == {pool[p] : p \in Running}

FinishedTasks == Range(finished)

\* C13: the pool never tokenizes more than 4 files at the same time, however
\* many files there are; a task is run by one process at a time and
\* completes at most once, and when map returns every discovered file has
\* been tokenized exactly once; a step of the pool changes only the pool,
\* its queue and the result list the parent receives, and what a task
\* delivers depends on its own file only.
C13_PoolOfFour ==
    /\ [](pc = "mp_map" =>
            /\ Cardinality(Running) <= 4
            /\ \A p, q \in Running : p # q => pool[p] # pool[q]
            /\ RunningTasks \cap FinishedTasks = {}
            /\ RunningTasks \cup FinishedTasks = 1..(qnext - 1)
            /\ \A t \in 1..Len(filepaths) :
                  /\ Occ(finished, t) <= 1
                  /\ opened[filepaths[t]] = Occ(finished, t)
                  /\ results[t] = IF t \in FinishedTasks
                                  THEN read_and_clean_file_standalone(dir, filepaths[t])
                                  ELSE None)
    /\ [](pc = "mp_collect" =>
            \A t \in 1..Len(filepaths) :
                Occ(finished, t) = 1 /\ opened[filepaths[t]] = 1)
    /\ [][pc = "mp_map" /\ pc' = "mp_map" =>
            UNCHANGED <<envVars, objVars, filepaths, all_words, idx, threads,
                        wres, lock,
                        all_results, final_stats, out_files, statVars>>]_vars

\* four files are being tokenized and a fifth one waits in the queue
C13_Witness ==
    /\ pc = "mp_map"
    /\ Cardinality(Running) = 4
    /\ Len(filepaths) >= 5
    /\ qnext = 5

\* map has returned the results of five files
C13_WitnessDone ==
    /\ pc = "mp_collect"
    /\ Len(filepaths) >= 5
    /\ finished[1] = 4
----------------------------------------------------------------------------
(* Termination of the strategies, checked under SpecLive *)

\* every read of a discovered file returns
AllReadsReturn == stuck = {}

\* C14: under fair scheduling a started strategy returns its result when
\* every file read returns (no wait on the lock, on join or on the pool
\* lasts forever), and it never returns when the read of one of its files
\* never does: nothing times out or cancels the read.
C14_ReturnsIffReadsReturn ==
    /\ AllReadsReturn => <>(pc = "stats")
    /\ ~AllReadsReturn => [](all_results = <<>>)

\* the join loop waits for a worker whose read does not return, the other
\* worker having ended
C14_Witness ==
    /\ pc = "thr_join"
    /\ \E i, j \in DOMAIN threads :
          /\ threads[i] = "read" /\ filepaths[i] \in stuck
          /\ threads[j] = "done"

\* pool.map waits for a task whose read does not return
C14_WitnessPool ==
    /\ pc = "mp_map"
    /\ qnext > Len(filepaths)
    /\ Cardinality(Running) = 1
    /\ \A p \in Running : filepaths[pool[p]] \in stuck
    /\ Len(finished) = 1
----------------------------------------------------------------------------
(* Properties of merge_counters on two counters, checked under SpecStats *)

\* the count a mapping gives a word, 0 for a word it does not hold
CountOf(counter, w) ==
    IF \E k \in 1..Len(counter) : counter[k].word = w
    THEN counter[CHOOSE k \in 1..Len(counter) : counter[k].word = w].count
    ELSE 0

KeysOf(counter) == {counter[k].word : k \in 1..Len(counter)}

\* C15: merging two counters in either order gives the same mapping; its
\* keys are the union of the two key sets and the count of each word is the
\* sum of its counts in the two, a missing word counting 0.
C15_MergeCommutes ==
    pc = "probed" /\ probe.kind = "pair" =>
        /\ DictEq(probe.ab, probe.ba)
        /\ KeysOf(probe.ab) = KeysOf(probe.a) \cup KeysOf(probe.b)
        /\ Len(probe.ab) = Cardinality(KeysOf(probe.ab))
        /\ \A w \in WordSet :
              CountOf(probe.ab, w) = CountOf(probe.a, w) + CountOf(probe.b, w)

\* the two counters share a word, each has one of its own, and the two
\* merges list their items in different orders
C15_Witness ==
    /\ pc = "probed" /\ probe.kind = "pair"
    /\ KeysOf(probe.a) \cap KeysOf(probe.b) # {}
    /\ KeysOf(probe.a) \ KeysOf(probe.b) # {}
    /\ KeysOf(probe.b) \ KeysOf(probe.a) # {}
    /\ probe.ab # probe.ba
----------------------------------------------------------------------------
(* Properties of the discovery and of main on any data folder, checked     *)
(* under SpecDir                                                           *)

\* the running strategy has made all its reader calls
ReadsOver == pc \in {"mp_list", "mp_collect", "thr_list", "thr_collect", "stats"}

\* each strategy gives the reader the entries named *.txt, once each, and
\* no other entry
TxtEntriesOnce ==
    /\ \A k \in 1..Len(dir) : opened[k] <= 1 /\ (~dir[k].txt => opened[k] = 0)
    /\ ReadsOver => \A k \in 1..Len(dir) : dir[k].txt => opened[k] = 1

\* C16: each strategy gives the reader exactly the entries of the folder
\* whose names end in ".txt", once each, entries without the suffix are
\* never opened, and every path given to the reader is a file.
C16_DiscoveredAreFiles ==
    /\ TxtEntriesOnce
    /\ \A k \in 1..Len(dir) : opened[k] > 0 => ~dir[k].isdir

\* what holds of the discovery: the suffix alone decides
C16_SuffixDecides == TxtEntriesOnce

C16_Witness ==
    /\ pc = "stats"
    /\ \E j, k \in 1..Len(dir) :
          /\ dir[j].isdir /\ dir[j].txt /\ opened[j] = 1
          /\ ~dir[k].txt /\ opened[k] = 0

\* C17: whatever the data folder and its files are, main runs the three
\* strategies and goes on to the writing of the output: no run ends by an
\* exception before.
C17_MainAlwaysCompletes == pc # "crashed"
----------------------------------------------------------------------------
(* The tie-break of the ranking, checked under SpecStats *)

\* the position of the first occurrence of w in the word sequence
FirstAt(w) == CHOOSE k \in 1..Len(words) : words[k] = w /\ \A j \in 1..(k - 1) : words[j] # w

\* among listed words of equal count the one seen first comes first
FirstSeenOrder(top) ==
    \A j, k \in 1..Len(top) :
        j < k /\ top[j].count = top[k].count =>
            FirstAt(top[j].word) < FirstAt(top[k].word)

\* an omitted word with the count of a listed one was first seen after it
FirstSeenKept(top) ==
    \A w \in Range(words) \ {top[k].word : k \in 1..Len(top)} :
        \A k \in 1..Len(top) :
            top[k].count = Occ(words, w) => FirstAt(top[k].word) < FirstAt(w)

\* C18: the ranking breaks ties by first occurrence: of two words of equal
\* count the one first seen earlier is listed earlier, and is the one kept
\* when the list is cut between them; the computations that return on a
\* word sequence return the same top-10 list, in that order.
C18_FirstSeenTieBreak ==
    /\ pc = "probed" /\ probe.kind = "top" =>
          FirstSeenOrder(probe.top) /\ FirstSeenKept(probe.top)
    /\ \A m \in Computations :
          Ended(m) /\ ~stats[m][1].exc =>
              /\ FirstSeenOrder(stats[m][1].top_10)
              /\ FirstSeenKept(stats[m][1].top_10)
              /\ \A m2 \in Computations :
                    Ended(m2) /\ ~stats[m2][1].exc =>
                        stats[m][1].top_10 = stats[m2][1].top_10

\* a top-1 query on a sequence whose two most frequent words tie, the second
\* word of the sequence being one of them and the first word not
C18_Witness ==
    /\ pc = "probed" /\ probe.kind = "top"
    /\ probe.n = 1 /\ Len(probe.top) = 1
    /\ probe.top[1].word # words[1]
    /\ \E w \in Range(words) : w # probe.top[1].word /\ Occ(words, w) = probe.top[1].count
    /\ Ended("threading") /\ ~stats["threading"][1].exc
----------------------------------------------------------------------------
(* Properties of the chunking loop, checked under SpecChunk *)

RECURSIVE ConcatChunks(_, _)
ConcatChunks(chunks, k) ==
    IF k > Len(chunks) THEN <<>> ELSE chunks[k] \o ConcatChunks(chunks, k + 1)

\* the chunks are not empty and, put end to end in their order, are the words
ExactPartition(chunks) ==
    /\ \A k \in 1..Len(chunks) : chunks[k] # <<>>
    /\ ConcatChunks(chunks, 1) = words

\* the threaded computation has cut its chunks
Chunked == pc \in {"stat_thr_start", "stat_thr_join", "stat_thr_merge", "stat_done", "probed"}
              /\ Len(words) >= ChunkDivisor

\* C19: for a word sequence of 4 words or more the chunking loop of both
\* chunked computations gives non-empty consecutive chunks whose
\* concatenation, in order, is the input: no word is dropped at the tail and
\* none is taken twice.
C19_ChunksPartitionWords ==
    Len(words) >= 4 =>
        /\ Chunked => ExactPartition(word_chunks)
        /\ Ended("multiprocessing") => ExactPartition(Chunks(words))

\* nine words are cut into four chunks of two and a last chunk of one
C19_Witness ==
    /\ Chunked
    /\ Len(words) = 9
    /\ Len(word_chunks) = 5
    /\ Len(word_chunks[4]) = 2 /\ Len(word_chunks[5]) = 1
    /\ Ended("multiprocessing")

\* C20: for a word sequence of 4 words or more the chunking loop gives at
\* most 4 chunks, so the threaded computation starts at most 4 counting
\* threads and the multiprocess one submits at most 4 tasks.
C20_AtMostFourChunks ==
    Len(words) >= 4 =>
        /\ Chunked => Len(word_chunks) <= 4 /\ Len(threads) <= 4
        /\ Ended("multiprocessing") => Len(Chunks(words)) <= 4
----------------------------------------------------------------------------
(* Agreement of the two readers, checked under SpecTok *)

\* both readers have been called on the file
BothRead == pc = "tok_done"

\* C21: on every file, one that fails to open included, the standalone
\* reader and the method return the same path and the same word list, both
\* by a return and not by an exception; and a call of either leaves the
\* TextProcessor's results, processed_files and lock, and the state the
\* workers of a strategy share, as they were.
C21_ReadersAgree ==
    /\ [](BothRead =>
            /\ ~results[1].exc /\ ~wres[1].exc
            /\ Truthy(results[1]) /\ Truthy(wres[1])
            /\ results[1].filepath = wres[1].filepath
            /\ results[1].filepath = 1
            /\ results[1].words = wres[1].words
            /\ ~dir[1].ok => results[1].words = <<>>)
    /\ [][UNCHANGED <<objVars, lock, envVars, filepaths, all_words, threads,
                      pool, qnext, all_results, finished>>]_vars
    /\ [][pc = "tok_method" => UNCHANGED wres]_vars
    /\ [][pc = "tok_standalone" => UNCHANGED results]_vars

\* both readers have returned the words of a text with a capital letter
C21_Witness ==
    /\ BothRead
    /\ dir[1].ok
    /\ 65 \in Range(dir[1].text)
    /\ Len(results[1].words) >= 1
    /\ wres[1].words = results[1].words

\* both readers have returned no word for a file that fails to open
C21_WitnessUnreadable ==
    /\ BothRead
    /\ ~dir[1].ok
    /\ dir[1].text # <<>>
    /\ wres[1] = results[1]
====
